---- MODULE Spec2Model ----
(***************************************************************************)
(* tfsc: a one-request-per-connection file server (src/server.py) and its  *)
(* client (src/client.py).                                                 *)
(*                                                                         *)
(* Wire units.  A "byte" of the model is one unit of a stream:             *)
(*   <<"o", n>>      an octet of a struct '>H' length prefix               *)
(*   <<"c", ch>>     one byte of text or of file contents                  *)
(*   <<"j", s>>      one structural token of a JSON text                   *)
(*   <<"f", k, v>>   one "key": value member of a JSON object              *)
(* len() of a stream is its number of units.  Strings (file names,         *)
(* messages) are sequences of one-character strings.                       *)
(***************************************************************************)
EXTENDS Integers, Sequences, FiniteSets, TLC

\* ------------------------------------------------------------- bounds
MaxConns == 2          \* connections the accept loop takes in one run
MaxPayload == 2        \* most payload bytes a peer declares or sends
MaxNameLen == 2        \* longest raw file name of the exhaustive name set

\* src/server.py:14, scaled from 65535 so that files span several chunks
BUFFER_SIZE == 2

VARIABLES
    platform,     \* "posix" or "nt": decides os.path.sep / os.path.altsep
    names,        \* the raw file names peers put in their requests
    fs,           \* the server's working directory: name -> [kind, data]
    fs_at_accept, \* the working directory as it was when the connection began
    pc,           \* position of Server.run
    conns,        \* connections accepted so far
    peer,         \* peer end of the current connection: none/open/closed/reset
    inbuf,        \* bytes the peer has sent and the server has not read yet
    req,          \* what the peer of this connection set out to send
    sent,         \* bytes the server has written to the current connection
    size,         \* read_header: the unpacked length prefix
    data,         \* read_from_socket: the bytearray being filled
    hdr,          \* the value read_header returned
    handler,      \* the branch Server.run took for this connection
    filename,     \* get_handler / put_handler: the sanitized file name
    content_len,  \* put_handler: header.get('content-length')
    n,            \* put_handler: bytes written so far
    file_len,     \* get_handler: bytes still to send
    fpos,         \* get_handler: read position of the open file
    exc,          \* the exception that left Server.run, or "none"
    log,          \* log records of the current connection
    touched,      \* paths the handlers tested, opened or created
    uploaded,     \* the last upload a peer completed: its raw name and payload
    cpc,          \* position of the client (src/client.py)
    cop,          \* the client's operation: list, get or put
    carg,         \* the client's filename argument ('' when not given)
    local,        \* the client's working directory: name -> file contents
    crd,          \* how many of the bytes sent to the client it has read
    csize,        \* client read_header: the unpacked length prefix
    cdata,        \* client read_from_socket: the bytearray being filled
    chdr,         \* the response header the client decoded
    cwant,        \* the content-length the client reads up to
    cn,           \* handle_get: n; handle_put: file_len
    cfpos,        \* handle_put: read position of the local file
    cout,         \* every byte the client's socket took for transmission
    cexc          \* the exception that ended the client, or "none"

vars == <<platform, names, fs, fs_at_accept, pc, conns, peer, inbuf, req, sent, size, data,
          hdr, handler, filename, content_len, n, file_len, fpos, exc, log,
          touched, uploaded, cpc, cop, carg, local, crd, csize, cdata, chdr, cwant,
          cn, cfpos, cout, cexc>>

\* the variables of the client
cvars == <<cpc, cop, carg, local, crd, csize, cdata, chdr, cwant, cn, cfpos, cout, cexc>>

\* ------------------------------------------------------------ helpers
Min(a, b) == IF a < b THEN a ELSE b

Drop(s, k) == SubSeq(s, k + 1, Len(s))

Take(s, k) == SubSeq(s, 1, k)

Oct(v) == <<"o", v>>

Ch(c) == <<"c", c>>

Tok(s) == <<"j", s>>

Field(k, v) == <<"f", k, v>>

\* str.encode('utf-8') of an ASCII string: one byte per character
encode(s) == [i \in 1..Len(s) |-> Ch(s[i])]

\* struct.pack('>H', v)
struct_pack(v) == <<Oct(v \div 256), Oct(v % 256)>>

\* struct.unpack('>H', b)[0] of exactly two bytes
struct_unpack(b) == 256 * b[1][2] + b[2][2]

\* ------------------------------------------------------- JSON values
NoneVal == [kind |-> "None"]

Dict(d) == [kind |-> "dict", d |-> d]

Other(t) == [kind |-> "other", truthy |-> t]

\* Python truthiness of a decoded header (`if header:`)
Truthy(v) ==
    CASE v.kind = "None" -> FALSE
      [] v.kind = "dict" -> DOMAIN v.d # {}
      [] OTHER -> v.truthy

IsObjectText(b) ==
    /\ Len(b) >= 2
    /\ b[1] = Tok("{")
    /\ b[Len(b)] = Tok("}")
    /\ \A i \in 2..(Len(b) - 1) : b[i][1] = "f"

ObjectOf(b) ==
    LET idx == 2..(Len(b) - 1)
        keys == {b[i][2] : i \in idx}
        last(k) == CHOOSE i \in idx : b[i][2] = k /\ \A j \in idx : b[j][2] = k => j <= i
    IN [k \in keys |-> b[last(k)][3]]

\* json.loads(data): [ok |-> TRUE, val |-> value], or ok = FALSE when it
\* raises json.JSONDecodeError
json_loads(b) ==
    IF IsObjectText(b) THEN [ok |-> TRUE, val |-> Dict(ObjectOf(b))]
    ELSE IF b = <<Tok("null")>> THEN [ok |-> TRUE, val |-> NoneVal]
    ELSE IF b = <<Tok("[") , Tok("]")>> THEN [ok |-> TRUE, val |-> Other(FALSE)]
    ELSE IF b = <<Tok("0")>> THEN [ok |-> TRUE, val |-> Other(FALSE)]
    ELSE IF b = <<Tok("1")>> THEN [ok |-> TRUE, val |-> Other(TRUE)]
    ELSE [ok |-> FALSE]

\* json.dumps(header).encode('utf-8') of a dict given as its members in order
json_dumps(members) == <<Tok("{")>> \o members \o <<Tok("}")>>

\* ------------------------------------------------- secure_filename
Whitespace == {" "}

os_path_sep == IF platform = "posix" THEN "/" ELSE "\\"

\* None on posix; the empty string stands for None (both are falsy)
os_path_altsep == IF platform = "posix" THEN "" ELSE "/"

\* str.replace(sep, ' ')
str_replace(s, sep) == [i \in 1..Len(s) |-> IF s[i] = sep THEN " " ELSE s[i]]

\* str.split(): the maximal runs of non-whitespace characters
RECURSIVE str_split(_, _)
str_split(s, cur) ==
    IF s = <<>> THEN (IF cur = <<>> THEN <<>> ELSE <<cur>>)
    ELSE IF Head(s) \in Whitespace
         THEN (IF cur = <<>> THEN <<>> ELSE <<cur>>) \o str_split(Tail(s), <<>>)
         ELSE str_split(Tail(s), Append(cur, Head(s)))

\* '_'.join(parts)
RECURSIVE str_join(_)
str_join(parts) ==
    IF parts = <<>> THEN <<>>
    ELSE IF Len(parts) = 1 THEN parts[1]
    ELSE parts[1] \o <<"_">> \o str_join(Tail(parts))

RECURSIVE str_lstrip(_, _)
str_lstrip(s, cs) ==
    IF s # <<>> /\ Head(s) \in cs THEN str_lstrip(Tail(s), cs) ELSE s

RECURSIVE str_rstrip(_, _)
str_rstrip(s, cs) ==
    IF s # <<>> /\ s[Len(s)] \in cs THEN str_rstrip(Take(s, Len(s) - 1), cs) ELSE s

\* str.strip(chars)
str_strip(s, cs) == str_rstrip(str_lstrip(s, cs), cs)

\* sanitize_pass without its .strip('_.')
sanitize_pass_unstripped(f, sep) ==
    IF sep = "" THEN f
    ELSE str_join(str_split(str_replace(f, sep), <<>>))

\* one pass of the loop body of secure_filename, skipped for a falsy sep
sanitize_pass(f, sep) ==
    IF sep = "" THEN f
    ELSE str_strip(str_join(str_split(str_replace(f, sep), <<>>)), {"_", "."})

secure_filename(f) == sanitize_pass(sanitize_pass(f, os_path_sep), os_path_altsep)

\* str(None)
NoneStr == <<"N", "o", "n", "e">>

\* ------------------------------------------------------- filesystem
\* os_path_exists answering as os.path.isfile does
os_path_exists_files_only(p) == p \in DOMAIN fs /\ fs[p].kind = "file"

os_path_exists(p) == p \in DOMAIN fs

os_path_isfile(p) == p \in DOMAIN fs /\ fs[p].kind = "file"

os_path_getsize(p) == Len(fs[p].data)

\* open(p, 'wb'): create or truncate
open_wb(p) == [x \in DOMAIN fs \cup {p} |-> IF x = p THEN [kind |-> "file", data |-> <<>>] ELSE fs[x]]

\* file_write putting each chunk at the start of the file
file_write_at_start(p, b) == [fs EXCEPT ![p].data = b \o Drop(@, Len(b))]

\* f.write(b) on the file opened at p
file_write(p, b) == [fs EXCEPT ![p].data = @ \o b]

\* RegularFiles without the os.path.isfile filter
RegularFiles_unfiltered == DOMAIN fs

\* the entries that pass the os.path.isfile filter of list_handler
RegularFiles == {p \in DOMAIN fs : fs[p].kind = "file"}

EmptyDir == [x \in {} |-> [kind |-> "file", data |-> <<>>]]

\* a working directory with a three-byte file, an empty file and a directory
SomeDir ==
    [x \in {<<"a">>, <<"e">>, <<"a", "a">>} |->
        IF x = <<"a">> THEN [kind |-> "file", data |-> encode(<<"p", "q", "r">>)]
        ELSE IF x = <<"e">> THEN [kind |-> "file", data |-> <<>>]
        ELSE [kind |-> "dir", data |-> <<>>]]

\* ---------------------------------------------------------- messages
NoHeaderMsg == <<"s", "e", "n", "d", " ", "r", "e", "q", "u", "e", "s", "t", " ", "w", "i", "t", "h", " ", "a", " ", "h", "e", "a", "d", "e", "r", ",", " ", "s", "e", "e", " ", "d", "o", "c", "u", "m", "e", "n", "t", "a", "t", "i", "o", "n", ".">>

NotFoundMsg(f) == <<"F", "i", "l", "e", " ", "n", "o", "t", " ", "f", "o", "u", "n", "d", " ", "\"">> \o f \o <<"\"">>

FileExistsMsg(f) == <<"F", "i", "l", "e", " ", "E", "x", "i", "s", "t", "s", ":", " ", "\"">> \o f \o <<"\"">>

StatusOK == 0

StatusERROR == 1

\* Server.generate_header; fname = <<>> stands for None or '' (both falsy)
generate_header(status, clen, encoding, fname) ==
    LET encoded_header ==
            json_dumps(<<Field("status", status), Field("content-length", clen),
                         Field("encoding", encoding)>>
                       \o (IF fname # <<>> THEN <<Field("filename", fname)>> ELSE <<>>))
    IN struct_pack(Len(encoded_header)) \o encoded_header

\* the bytes send_error_msg hands to sock.sendall
error_frame(msg) ==
    generate_header(StatusERROR, Len(encode(msg)), "utf-8", <<>>) \o encode(msg)

\* ------------------------------------------------------------ peers
NameChars == {"a", ".", "_", " ", "/", "\\"}

\* every string over NameChars of at most MaxNameLen characters
AllNames == UNION {[1..m -> NameChars] : m \in 0..MaxNameLen}

\* names of the entries of SomeDir, a fresh name, and names with separators
CuratedNames == {<<"a">>, <<"e">>, <<"a", "a">>, <<"b">>, <<"/">>, <<".", ".", "/", "b">>}

Frame(body) == struct_pack(Len(body)) \o body

Payload(k) == [i \in 1..k |-> Ch(<<"x", "y", "z", "w">>[((i - 1) % 4) + 1])]

Method(m) == <<Field("method", m)>>

NameMembers(nms) == {<<>>} \cup {<<Field("filename", f)>> : f \in nms}

LenMembers == {<<>>} \cup {<<Field("content-length", k)>> : k \in 0..MaxPayload}

RequestBody(mm, lm, nm) == json_dumps(mm \o <<Field("encoding", "binary")>> \o lm \o nm)

\* streams that start with a well-formed request frame
WellFormed(nms) ==
    {Frame(RequestBody(mm, <<>>, <<>>)) : mm \in {<<>>, Method("LIST"), Method("DELETE")}}
    \cup {Frame(RequestBody(Method("LIST"), <<>>, <<Field("filename", <<"a">>)>>))}
    \cup {Frame(RequestBody(Method("GET"), <<>>, nm)) : nm \in NameMembers(nms)}
    \cup {Frame(RequestBody(Method("PUT"), lm, nm)) \o Payload(k) :
              lm \in LenMembers, nm \in NameMembers(nms), k \in 0..MaxPayload}

\* streams whose frame cannot be decoded, or decodes to no field table
Malformed ==
    {<<>>, <<Oct(0)>>}
    \cup {Frame(b) : b \in {<<>>, <<Tok("x")>>, <<Tok("null")>>, <<Tok("["), Tok("]")>>,
                             <<Tok("0")>>, <<Tok("1")>>, json_dumps(<<>>)}}
    \cup {Take(Frame(RequestBody(Method("LIST"), <<>>, <<>>)), 4)}

PeerStreams(nms) == WellFormed(nms) \cup Malformed

\* client.py generate_header lines 39-55: content-length and filename are
\* left out when falsy (0, None, '')
client_generate_header(method, clen, encoding, fname) ==
    LET encoded_header ==
            json_dumps(<<Field("method", method), Field("encoding", encoding)>>
                       \o (IF clen # 0 THEN <<Field("content-length", clen)>> ELSE <<>>)
                       \o (IF fname # <<>> THEN <<Field("filename", fname)>> ELSE <<>>))
    IN struct_pack(Len(encoded_header)) \o encoded_header

\* handle_list lines 79-80
handle_list_request == client_generate_header("LIST", 0, "utf-8", <<>>)

\* handle_get lines 91-93
handle_get_request(fname) == client_generate_header("GET", 0, "binary", fname)

\* handle_put lines 127-130, for a local file of st_size bytes
handle_put_request(fname, st_size) == client_generate_header("put", st_size, "binary", fname)

\* The requests this repository's client opens a connection with.  The
\* client writes nothing more before it has read a response; what it writes
\* after an OK acknowledgment of a PUT is not part of these streams.
ClientRequests(nms) ==
    {[stream |-> handle_list_request, op |-> "list"]}
    \cup {[stream |-> handle_get_request(f), op |-> "get"] : f \in nms \cup {<<>>}}
    \cup {[stream |-> handle_put_request(f, k), op |-> "put"] : f \in nms \ {<<>>}, k \in 0..MaxPayload}

Requests(nms) == {[stream |-> s, op |-> "raw"] : s \in PeerStreams(nms)} \cup ClientRequests(nms)

\* sock.recv(bufsize): the packets it can return.  Bytes arrive in
\* segments of any size; an empty buffer gives b'' once the peer has closed
\* and blocks (no packet) while the peer is open.
sock_recv(bufsize) ==
    IF peer = "reset" THEN {}
    ELSE IF inbuf # <<>> THEN {Take(inbuf, k) : k \in 1..Min(bufsize, Len(inbuf))}
    ELSE IF peer = "closed" THEN {<<>>}
    ELSE {}

\* sock.sendall(b): "ok", or the OSError it raises once the peer is gone
sock_sendall == IF peer = "open" THEN {"ok"} ELSE {"ok", "BrokenPipeError", "ConnectionResetError"}

\* a stream read in one piece: the frame's body and the bytes after the frame
WholeBody(s) == Take(Drop(s, 2), Min(struct_unpack(Take(s, 2)), Len(s) - 2))

AfterFrame(s) == Drop(s, Min(2 + struct_unpack(Take(s, 2)), Len(s)))

\* the request header the peer of the current connection wrote
PeerRequest == json_loads(WholeBody(req.stream))

\* no upload has been completed
NoUpload == [name |-> <<>>, payload |-> <<>>]

\* What a peer takes for a completed upload: it asked for a PUT of the
\* payload it then sent in full (content-length >= 1 bytes), the server
\* answered with the acknowledgment and nothing else, and the connection
\* ended in order.
PutCompleted ==
    /\ Len(req.stream) >= 2
    /\ PeerRequest.ok
    /\ PeerRequest.val.kind = "dict"
    /\ LET h == PeerRequest.val.d
       IN /\ "method" \in DOMAIN h /\ h["method"] = "PUT"
          /\ "filename" \in DOMAIN h
          /\ "content-length" \in DOMAIN h
          /\ h["content-length"] >= 1
          /\ Len(AfterFrame(req.stream)) = h["content-length"]
    /\ sent = generate_header(StatusOK, 0, "utf-8", <<>>)
    /\ peer # "reset"

\* a client working directory without files
NoLocalFiles == [x \in {} |-> <<>>]

\* the client's variables before main has set anything
ClientFresh ==
    /\ crd = 0
    /\ csize = 0
    /\ cdata = <<>>
    /\ chdr = NoneVal
    /\ cwant = 0
    /\ cn = 0
    /\ cfpos = 0
    /\ cout = <<>>
    /\ cexc = "none"

\* no client runs
ClientIdle ==
    /\ cpc = "none"
    /\ cop = "none"
    /\ carg = <<>>
    /\ local = NoLocalFiles
    /\ ClientFresh

\* ------------------------------------------------------------- state
Init ==
    /\ platform \in {"posix", "nt"}
    /\ names = CuratedNames
    /\ fs \in {EmptyDir, SomeDir}
    /\ fs_at_accept = fs
    /\ pc = "accept"
    /\ conns = 0
    /\ peer = "none"
    /\ inbuf = <<>>
    /\ req = [stream |-> <<>>, op |-> "none"]
    /\ sent = <<>>
    /\ size = 0
    /\ data = <<>>
    /\ hdr = NoneVal
    /\ handler = "none"
    /\ filename = <<>>
    /\ content_len = 0
    /\ n = 0
    /\ file_len = 0
    /\ fpos = 0
    /\ exc = "none"
    /\ log = <<>>
    /\ touched = {}
    /\ uploaded = NoUpload
    /\ ClientIdle

\* Server.run line 212: conn, addr = self.sock.accept()
Accept ==
    /\ pc = "accept"
    /\ conns < MaxConns
    /\ \E r \in Requests(names) :
          /\ inbuf' = r.stream
          /\ req' = r
    /\ peer' = "open"
    /\ conns' = conns + 1
    /\ pc' = "read_prefix"
    /\ UNCHANGED <<cvars, platform, names, uploaded, fs_at_accept, fs, sent, size, data, hdr, handler, filename,
                   content_len, n, file_len, fpos, exc, log, touched>>

\* the peer closes its end (FIN) at any point of the connection
PeerClose ==
    /\ pc \in {"read_prefix", "read_body", "dispatch", "get_loop", "put_loop"}
    /\ peer = "open"
    /\ peer' = "closed"
    /\ UNCHANGED <<cvars, platform, names, uploaded, fs_at_accept, fs, pc, conns, inbuf, req, sent, size, data, hdr,
                   handler, filename, content_len, n, file_len, fpos, exc, log, touched>>

\* the peer aborts the connection (RST) at any point of the connection
PeerReset ==
    /\ pc \in {"read_prefix", "read_body", "dispatch", "get_loop", "put_loop"}
    /\ peer = "open"
    /\ peer' = "reset"
    /\ UNCHANGED <<cvars, platform, names, uploaded, fs_at_accept, fs, pc, conns, inbuf, req, sent, size, data, hdr,
                   handler, filename, content_len, n, file_len, fpos, exc, log, touched>>

\* read_header line 79: struct.unpack('>H', sock.recv(2)); struct.error is
\* the one exception read_header catches (lines 82-84)
RecvPrefix ==
    /\ pc = "read_prefix"
    /\ \/ /\ peer = "reset"
          /\ pc' = "crashed"
          /\ exc' = "ConnectionResetError"
          /\ UNCHANGED <<inbuf, size, hdr, log>>
       \/ \E packet \in sock_recv(2) :
             /\ inbuf' = Drop(inbuf, Len(packet))
             /\ exc' = exc
             /\ IF Len(packet) = 2
                THEN /\ size' = struct_unpack(packet)
                     /\ pc' = "read_body"
                     /\ UNCHANGED <<hdr, log>>
                ELSE /\ hdr' = NoneVal
                     /\ log' = Append(log, "Could not extract the header")
                     /\ pc' = "dispatch"
                     /\ UNCHANGED size
    /\ UNCHANGED <<cvars, platform, names, uploaded, fs_at_accept, fs, conns, peer, req, sent, data, handler, filename,
                   content_len, n, file_len, fpos, touched>>

\* read_header line 81: return json.loads(data); JSONDecodeError is not caught
LoadHeader(d) ==
    LET r == json_loads(d)
    IN IF r.ok
       THEN hdr' = r.val /\ pc' = "dispatch" /\ exc' = exc
       ELSE hdr' = hdr /\ pc' = "crashed" /\ exc' = "JSONDecodeError"

\* read_from_socket lines 69-74: one pass of the loop
ReadBodyRecv ==
    /\ pc = "read_body"
    /\ Len(data) < size
    /\ \/ /\ peer = "reset"
          /\ pc' = "crashed"
          /\ exc' = "ConnectionResetError"
          /\ UNCHANGED <<inbuf, data, hdr>>
       \/ \E packet \in sock_recv(size - Len(data)) :
             IF packet = <<>>
             THEN LoadHeader(data) /\ UNCHANGED <<inbuf, data>>
             ELSE /\ data' = data \o packet
                  /\ inbuf' = Drop(inbuf, Len(packet))
                  /\ UNCHANGED <<pc, hdr, exc>>
    /\ UNCHANGED <<cvars, platform, names, uploaded, fs_at_accept, fs, conns, peer, req, sent, size, handler, filename,
                   content_len, n, file_len, fpos, log, touched>>

\* read_from_socket line 69 false, line 75, then read_header line 81
ReadBodyDone ==
    /\ pc = "read_body"
    /\ Len(data) >= size
    /\ LoadHeader(data)
    /\ UNCHANGED <<cvars, platform, names, uploaded, fs_at_accept, fs, conns, peer, inbuf, req, sent, size, data, handler,
                   filename, content_len, n, file_len, fpos, log, touched>>

\* header.get(key), with dflt standing for None
header_get(h, key, dflt) == IF key \in DOMAIN h.d THEN h.d[key] ELSE dflt

IsMethod(h, m) == "method" \in DOMAIN h.d /\ h.d["method"] = m

\* send_error_msg lines 103-113: the write is tried once; a failure is logged
SendErrorMsg(msg, outcome, entry) ==
    /\ sent' = IF outcome = "ok" THEN sent \o error_frame(msg) ELSE sent
    /\ log' = (IF outcome = "ok" THEN log ELSE Append(log, outcome)) \o entry

\* Server.run lines 224-226: read_header returned a falsy value
MalformedRequest ==
    /\ pc = "dispatch"
    /\ ~Truthy(hdr)
    /\ \E o \in sock_sendall : SendErrorMsg(NoHeaderMsg, o, <<>>)
    /\ handler' = "malformed"
    /\ pc' = "close"
    /\ UNCHANGED <<cvars, platform, names, uploaded, fs_at_accept, fs, conns, peer, inbuf, req, size, data, hdr, filename,
                   content_len, n, file_len, fpos, exc, touched>>

\* Server.run line 216: header.get on a truthy value that is no dict
DispatchNotADict ==
    /\ pc = "dispatch"
    /\ Truthy(hdr)
    /\ hdr.kind # "dict"
    /\ pc' = "crashed"
    /\ exc' = "AttributeError"
    /\ UNCHANGED <<cvars, platform, names, uploaded, fs_at_accept, fs, conns, peer, inbuf, req, sent, size, data, hdr,
                   handler, filename, content_len, n, file_len, fpos, log, touched>>

\* Server.run lines 222-223
UnknownMethod ==
    /\ pc = "dispatch"
    /\ Truthy(hdr)
    /\ hdr.kind = "dict"
    /\ ~IsMethod(hdr, "LIST") /\ ~IsMethod(hdr, "GET") /\ ~IsMethod(hdr, "PUT")
    /\ log' = Append(log, "Method Unknown")
    /\ handler' = "unknown"
    /\ pc' = "close"
    /\ UNCHANGED <<cvars, platform, names, uploaded, fs_at_accept, fs, conns, peer, inbuf, req, sent, size, data, hdr,
                   filename, content_len, n, file_len, fpos, exc, touched>>

\* the orders os.listdir can give the regular files in
Listings ==
    {f \in [1..Cardinality(RegularFiles) -> RegularFiles] :
        \A i, j \in DOMAIN f : i # j => f[i] # f[j]}

\* b'\n'.join(files)
RECURSIVE join_lines(_)
join_lines(files) ==
    IF files = <<>> THEN <<>>
    ELSE IF Len(files) = 1 THEN encode(files[1])
    ELSE encode(files[1]) \o <<Ch("\n")>> \o join_lines(Tail(files))

\* Server.run lines 216-217 and list_handler lines 116-126
ListHandler ==
    /\ pc = "dispatch"
    /\ Truthy(hdr)
    /\ hdr.kind = "dict"
    /\ IsMethod(hdr, "LIST")
    /\ \E files \in Listings, o \in sock_sendall :
          LET payload == join_lines(files)
              header == generate_header(StatusOK, Len(payload), "utf-8", <<>>)
          IN /\ sent' = IF o = "ok" THEN sent \o header \o payload ELSE sent
             /\ log' = Append(log, IF o = "ok" THEN "LIST - OK" ELSE o)
    /\ handler' = "list"
    /\ pc' = "close"
    /\ UNCHANGED <<cvars, platform, names, uploaded, fs_at_accept, fs, conns, peer, inbuf, req, size, data, hdr, filename,
                   content_len, n, file_len, fpos, exc, touched>>

\* Server.run lines 218-219 and get_handler lines 129-135, 152-154
GetStart ==
    /\ pc = "dispatch"
    /\ Truthy(hdr)
    /\ hdr.kind = "dict"
    /\ ~IsMethod(hdr, "LIST")
    /\ IsMethod(hdr, "GET")
    /\ LET fname == secure_filename(header_get(hdr, "filename", NoneStr))
       IN /\ filename' = fname
          /\ touched' = touched \cup {fname}
          /\ handler' = "get"
          /\ IF os_path_isfile(fname)
             THEN \E o \in sock_sendall :
                     IF o = "ok"
                     THEN /\ sent' = sent \o generate_header(StatusOK, os_path_getsize(fname),
                                                            "binary", fname)
                          /\ file_len' = os_path_getsize(fname)
                          /\ fpos' = 0
                          /\ pc' = "get_loop"
                          /\ UNCHANGED <<exc, log>>
                     ELSE /\ pc' = "crashed"
                          /\ exc' = o
                          /\ UNCHANGED <<sent, file_len, fpos, log>>
             ELSE /\ \E o \in sock_sendall :
                        SendErrorMsg(NotFoundMsg(fname), o, <<"GET - Error - File not found">>)
                  /\ pc' = "close"
                  /\ UNCHANGED <<file_len, fpos, exc>>
    /\ UNCHANGED <<cvars, platform, names, uploaded, fs_at_accept, fs, conns, peer, inbuf, req, size, data, hdr,
                   content_len, n>>

\* file_read that never advances: every chunk is read from the start
file_read_from_start == SubSeq(fs[filename].data, 1, Min(BUFFER_SIZE, Len(fs[filename].data)))

\* f.read(BUFFER_SIZE) at the current position of the file being sent
file_read == SubSeq(fs[filename].data, fpos + 1, Min(fpos + BUFFER_SIZE, Len(fs[filename].data)))

\* get_handler lines 138-148: one pass of the loop
GetChunk ==
    /\ pc = "get_loop"
    /\ file_len > 0
    /\ IF file_read = <<>>
       THEN /\ log' = Append(log, "GET - OK")
            /\ pc' = "close"
            /\ UNCHANGED <<sent, file_len, fpos, exc>>
       ELSE \E o \in sock_sendall :
               CASE o = "ok" ->
                       /\ sent' = sent \o file_read
                       /\ file_len' = file_len - Len(file_read)
                       /\ fpos' = fpos + Len(file_read)
                       /\ UNCHANGED <<pc, exc, log>>
                 [] o = "ConnectionResetError" ->
                       /\ log' = Append(log, "GET - Error - Client Disconnected")
                       /\ pc' = "close"
                       /\ UNCHANGED <<sent, file_len, fpos, exc>>
                 [] OTHER ->
                       /\ pc' = "crashed"
                       /\ exc' = o
                       /\ UNCHANGED <<sent, file_len, fpos, log>>
    /\ UNCHANGED <<cvars, platform, names, uploaded, fs_at_accept, fs, conns, peer, inbuf, req, size, data, hdr, handler,
                   filename, content_len, n, touched>>

\* get_handler line 138 false, line 150
GetDone ==
    /\ pc = "get_loop"
    /\ file_len <= 0
    /\ log' = Append(log, "GET - OK")
    /\ pc' = "close"
    /\ UNCHANGED <<cvars, platform, names, uploaded, fs_at_accept, fs, conns, peer, inbuf, req, sent, size, data, hdr,
                   handler, filename, content_len, n, file_len, fpos, exc, touched>>

\* PutOpen without the `content_len == 0` return of lines 171-173
PutOpen_unchecked(fname) ==
    IF fname = <<>>
    THEN /\ pc' = "crashed"
         /\ exc' = "FileNotFoundError"
         /\ UNCHANGED <<fs, content_len, n, log>>
    ELSE /\ fs' = open_wb(fname)
         /\ IF "content-length" \in DOMAIN hdr.d
            THEN /\ content_len' = hdr.d["content-length"]
                 /\ n' = 0
                 /\ pc' = "put_loop"
                 /\ UNCHANGED <<exc, log>>
            ELSE /\ pc' = "crashed"
                 /\ exc' = "TypeError"
                 /\ UNCHANGED <<content_len, n, log>>

\* put_handler lines 169-177, after the acknowledgment went out: the
\* zero-length return, open(filename, 'wb'), and the first test of the loop
PutOpen(fname) ==
    IF "content-length" \in DOMAIN hdr.d /\ hdr.d["content-length"] = 0
    THEN /\ log' = Append(log, "Ignoring zero sized file")
         /\ pc' = "close"
         /\ UNCHANGED <<fs, content_len, n, exc>>
    ELSE IF fname = <<>>
    THEN /\ pc' = "crashed"
         /\ exc' = "FileNotFoundError"
         /\ UNCHANGED <<fs, content_len, n, log>>
    ELSE /\ fs' = open_wb(fname)
         /\ IF "content-length" \in DOMAIN hdr.d
            THEN /\ content_len' = hdr.d["content-length"]
                 /\ n' = 0
                 /\ pc' = "put_loop"
                 /\ UNCHANGED <<exc, log>>
            ELSE /\ pc' = "crashed"
                 /\ exc' = "TypeError"
                 /\ UNCHANGED <<content_len, n, log>>

\* PutStart without the `return` of line 163: the refusal is followed by
\* the acknowledgment
PutStart_no_return ==
    /\ pc = "dispatch"
    /\ Truthy(hdr)
    /\ hdr.kind = "dict"
    /\ ~IsMethod(hdr, "LIST") /\ ~IsMethod(hdr, "GET")
    /\ IsMethod(hdr, "PUT")
    /\ handler' = "put"
    /\ IF "filename" \notin DOMAIN hdr.d
       THEN /\ pc' = "crashed"
            /\ exc' = "AttributeError"
            /\ UNCHANGED <<fs, sent, filename, content_len, n, log, touched>>
       ELSE LET fname == secure_filename(hdr.d["filename"])
            IN /\ filename' = fname
               /\ touched' = touched \cup {fname}
               /\ IF os_path_exists(fname)
                  THEN /\ sent' = sent \o error_frame(FileExistsMsg(fname))
                                       \o generate_header(StatusOK, 0, "utf-8", <<>>)
                       /\ log' = Append(log, "PUT - Error - File Exists")
                       /\ pc' = "close"
                       /\ UNCHANGED <<fs, content_len, n, exc>>
                  ELSE \E o \in sock_sendall :
                          IF o = "ok"
                          THEN /\ sent' = sent \o generate_header(StatusOK, 0, "utf-8", <<>>)
                               /\ PutOpen(fname)
                          ELSE /\ pc' = "crashed"
                               /\ exc' = o
                               /\ UNCHANGED <<fs, sent, content_len, n, log>>
    /\ UNCHANGED <<cvars, platform, names, uploaded, fs_at_accept, conns, peer, inbuf, req, size, data, hdr, file_len, fpos>>

\* Server.run lines 220-221 and put_handler lines 157-177
PutStart ==
    /\ pc = "dispatch"
    /\ Truthy(hdr)
    /\ hdr.kind = "dict"
    /\ ~IsMethod(hdr, "LIST") /\ ~IsMethod(hdr, "GET")
    /\ IsMethod(hdr, "PUT")
    /\ handler' = "put"
    /\ IF "filename" \notin DOMAIN hdr.d
       THEN /\ pc' = "crashed"
            /\ exc' = "AttributeError"
            /\ UNCHANGED <<fs, sent, filename, content_len, n, log, touched>>
       ELSE LET fname == secure_filename(hdr.d["filename"])
            IN /\ filename' = fname
               /\ touched' = touched \cup {fname}
               /\ IF os_path_exists(fname)
                  THEN /\ \E o \in sock_sendall :
                             SendErrorMsg(FileExistsMsg(fname), o, <<"PUT - Error - File Exists">>)
                       /\ pc' = "close"
                       /\ UNCHANGED <<fs, content_len, n, exc>>
                  ELSE \E o \in sock_sendall :
                          IF o = "ok"
                          THEN /\ sent' = sent \o generate_header(StatusOK, 0, "utf-8", <<>>)
                               /\ PutOpen(fname)
                          ELSE /\ pc' = "crashed"
                               /\ exc' = o
                               /\ UNCHANGED <<fs, sent, content_len, n, log>>
    /\ UNCHANGED <<cvars, platform, names, uploaded, fs_at_accept, conns, peer, inbuf, req, size, data, hdr, file_len, fpos>>

\* PutRecv removing the file when the peer closes before content-length
\* bytes have arrived
PutRecv_rollback ==
    /\ pc = "put_loop"
    /\ n < content_len
    /\ \/ /\ peer = "reset"
          /\ pc' = "crashed"
          /\ exc' = "ConnectionResetError"
          /\ UNCHANGED <<fs, inbuf, n, log>>
       \/ \E packet \in sock_recv(BUFFER_SIZE) :
             IF packet = <<>>
             THEN /\ log' = Append(log, "PUT - OK")
                  /\ pc' = "close"
                  /\ fs' = [x \in DOMAIN fs \ {filename} |-> fs[x]]
                  /\ UNCHANGED <<inbuf, n, exc>>
             ELSE /\ fs' = file_write(filename, packet)
                  /\ n' = n + Len(packet)
                  /\ inbuf' = Drop(inbuf, Len(packet))
                  /\ UNCHANGED <<pc, exc, log>>
    /\ UNCHANGED <<cvars, platform, names, uploaded, fs_at_accept, conns, peer, req, sent, size, data, hdr, handler,
                   filename, content_len, file_len, fpos, touched>>

\* put_handler lines 177-181: one pass of the loop
PutRecv ==
    /\ pc = "put_loop"
    /\ n < content_len
    /\ \/ /\ peer = "reset"
          /\ pc' = "crashed"
          /\ exc' = "ConnectionResetError"
          /\ UNCHANGED <<fs, inbuf, n, log>>
       \/ \E packet \in sock_recv(BUFFER_SIZE) :
             IF packet = <<>>
             THEN /\ log' = Append(log, "PUT - OK")
                  /\ pc' = "close"
                  /\ UNCHANGED <<fs, inbuf, n, exc>>
             ELSE /\ fs' = file_write(filename, packet)
                  /\ n' = n + Len(packet)
                  /\ inbuf' = Drop(inbuf, Len(packet))
                  /\ UNCHANGED <<pc, exc, log>>
    /\ UNCHANGED <<cvars, platform, names, uploaded, fs_at_accept, conns, peer, req, sent, size, data, hdr, handler,
                   filename, content_len, file_len, fpos, touched>>

\* put_handler line 177 false, line 183
PutDone ==
    /\ pc = "put_loop"
    /\ n >= content_len
    /\ log' = Append(log, "PUT - OK")
    /\ pc' = "close"
    /\ UNCHANGED <<cvars, platform, names, uploaded, fs_at_accept, fs, conns, peer, inbuf, req, sent, size, data, hdr,
                   handler, filename, content_len, n, file_len, fpos, exc, touched>>

\* ForgetConnection leaving the connection's socket open
ForgetConnection_leaking ==
    /\ fs_at_accept' = fs
    /\ peer' = peer
    /\ inbuf' = <<>>
    /\ req' = [stream |-> <<>>, op |-> "none"]
    /\ sent' = <<>>
    /\ size' = 0
    /\ data' = <<>>
    /\ hdr' = NoneVal
    /\ handler' = "none"
    /\ filename' = <<>>
    /\ content_len' = 0
    /\ n' = 0
    /\ file_len' = 0
    /\ fpos' = 0
    /\ log' = <<>>
    /\ touched' = {}

\* the state of a connection is dropped with the connection
ForgetConnection ==
    /\ fs_at_accept' = fs
    /\ peer' = "none"
    /\ inbuf' = <<>>
    /\ req' = [stream |-> <<>>, op |-> "none"]
    /\ sent' = <<>>
    /\ size' = 0
    /\ data' = <<>>
    /\ hdr' = NoneVal
    /\ handler' = "none"
    /\ filename' = <<>>
    /\ content_len' = 0
    /\ n' = 0
    /\ file_len' = 0
    /\ fpos' = 0
    /\ log' = <<>>
    /\ touched' = {}

\* Server.run line 213: leaving `with conn:` after the handler returned
CloseConn ==
    /\ pc = "close"
    /\ pc' = "accept"
    /\ ForgetConnection
    /\ uploaded' = IF PutCompleted THEN [name |-> PeerRequest.val.d["filename"],
                                         payload |-> AfterFrame(req.stream)]
                   ELSE uploaded
    /\ UNCHANGED <<cvars, platform, names, fs, conns, exc>>

\* Server.run lines 228-229: the operator interrupts the server
Interrupt ==
    /\ pc \notin {"crashed", "stopped"}
    /\ pc' = "stopped"
    /\ ForgetConnection
    /\ UNCHANGED <<cvars, platform, names, uploaded, fs, conns, exc>>

Next ==
    \/ Accept
    \/ PeerClose
    \/ PeerReset
    \/ RecvPrefix
    \/ ReadBodyRecv
    \/ ReadBodyDone
    \/ MalformedRequest
    \/ DispatchNotADict
    \/ UnknownMethod
    \/ ListHandler
    \/ GetStart
    \/ GetChunk
    \/ GetDone
    \/ PutStart
    \/ PutRecv
    \/ PutDone
    \/ CloseConn
    \/ Interrupt

Spec == Init /\ [][Next]_vars

\* The same server, serving the last connection of a run, with peers that
\* draw their file names from every string of AllNames.
InitNames ==
    /\ platform \in {"posix", "nt"}
    /\ names = AllNames
    /\ fs \in {EmptyDir, SomeDir}
    /\ fs_at_accept = fs
    /\ pc = "accept"
    /\ conns = MaxConns - 1
    /\ peer = "none"
    /\ inbuf = <<>>
    /\ req = [stream |-> <<>>, op |-> "none"]
    /\ sent = <<>>
    /\ size = 0
    /\ data = <<>>
    /\ hdr = NoneVal
    /\ handler = "none"
    /\ filename = <<>>
    /\ content_len = 0
    /\ n = 0
    /\ file_len = 0
    /\ fpos = 0
    /\ exc = "none"
    /\ log = <<>>
    /\ touched = {}
    /\ uploaded = NoUpload
    /\ ClientIdle

SpecNames == InitNames /\ [][Next]_vars

\* ============================================================== client
\* src/client.py.  The client runs one operation on one connection.

\* the chunk handle_put reads and hands to sock.send (line 143), scaled
\* from 4096 so that a file spans several chunks
PUT_CHUNK == 2

\* the server variables a client step leaves alone
sbase == <<platform, names, fs, fs_at_accept, size, data, hdr, handler, filename,
           content_len, n, file_len, fpos, exc, log, touched, uploaded>>

\* The server end of the client's connection is closed.  "any" and "gone"
\* are the two positions of a server that is not this repository's.
ServerClosed == pc \in {"accept", "crashed", "stopped", "gone"}

\* bytes sent to the client that it has not read yet
cin == Drop(sent, crd)

\* sock.recv(bufsize) of the client: the packets it can return
client_recv(bufsize) ==
    IF cin # <<>> THEN {Take(cin, k) : k \in 1..Min(bufsize, Len(cin))}
    ELSE IF ServerClosed THEN {<<>>}
    ELSE {}

\* the server closed while bytes of the client were unread: the connection
\* was reset, and a recv of the client can raise ConnectionResetError
ClientRecvFails == ServerClosed /\ inbuf # <<>>

\* the client moves on inside its handler
ClientGoes(p) ==
    /\ cpc' = p
    /\ cexc' = cexc
    /\ peer' = peer

\* the handler returns ("returned") or an exception leaves it ("raised");
\* either way `with socket.socket(...) as s` closes the socket
ClientEnds(how, e) ==
    /\ cpc' = how
    /\ cexc' = e
    /\ peer' = "closed"

\* The request the handler starts with: handle_list 79-80, handle_get 91-93,
\* handle_put 127-130.  os.stat of a missing file raises FileNotFoundError,
\* which handle_put catches (148-150): nothing is sent (<<>>).
ClientHeader ==
    CASE cop = "list" -> handle_list_request
      [] cop = "get" -> handle_get_request(carg)
      [] OTHER -> IF carg \in DOMAIN local THEN handle_put_request(carg, Len(local[carg]))
                  ELSE <<>>

\* the client side of connecting and sending the request
ClientSends ==
    /\ inbuf' = ClientHeader
    /\ cout' = ClientHeader
    /\ req' = [stream |-> ClientHeader, op |-> cop]
    /\ IF ClientHeader = <<>>
       THEN ClientEnds("returned", "none")
       ELSE /\ cpc' = "read_prefix"
            /\ cexc' = cexc
            /\ peer' = "open"
    /\ UNCHANGED <<cop, carg, local, crd, csize, cdata, chdr, cwant, cn, cfpos>>

\* main lines 178-186 against this repository's server: s.connect(addr) is
\* answered by the accept() of Server.run line 212, then the handler sends
ClientConnect ==
    /\ cpc = "start"
    /\ pc = "accept"
    /\ conns < MaxConns
    /\ ClientSends
    /\ pc' = "read_prefix"
    /\ conns' = conns + 1
    /\ UNCHANGED <<sbase, sent>>

\* client read_header line 70: struct.unpack('>H', sock.recv(2)).  On
\* struct.error read_header returns None (73-74) and the handler's
\* header.get raises AttributeError.
ClientRecvPrefix ==
    /\ cpc = "read_prefix"
    /\ \/ /\ ClientRecvFails
          /\ ClientEnds("raised", "ConnectionResetError")
          /\ UNCHANGED <<crd, csize>>
       \/ \E packet \in client_recv(2) :
             /\ crd' = crd + Len(packet)
             /\ IF Len(packet) = 2
                THEN csize' = struct_unpack(packet) /\ ClientGoes("read_body")
                ELSE csize' = csize /\ ClientEnds("raised", "AttributeError")
    /\ UNCHANGED <<sbase, pc, conns, inbuf, req, sent, cop, carg, local, cdata, chdr, cwant,
                   cn, cfpos, cout>>

\* client read_header line 72: json.loads(data); nothing catches JSONDecodeError
ClientLoad ==
    LET r == json_loads(cdata)
    IN IF r.ok
       THEN chdr' = r.val /\ ClientGoes("decide")
       ELSE chdr' = chdr /\ ClientEnds("raised", "JSONDecodeError")

\* client read_from_socket lines 60-65 under read_header: one pass of the
\* loop, or the end of the loop and line 72
ClientReadBody ==
    /\ cpc = "read_body"
    /\ IF Len(cdata) >= csize
       THEN ClientLoad /\ UNCHANGED <<crd, cdata>>
       ELSE \/ /\ ClientRecvFails
               /\ ClientEnds("raised", "ConnectionResetError")
               /\ UNCHANGED <<crd, cdata, chdr>>
            \/ \E packet \in client_recv(csize - Len(cdata)) :
                  IF packet = <<>>
                  THEN ClientLoad /\ UNCHANGED <<crd, cdata>>
                  ELSE /\ cdata' = cdata \o packet
                       /\ crd' = crd + Len(packet)
                       /\ chdr' = chdr
                       /\ ClientGoes("read_body")
    /\ UNCHANGED <<sbase, pc, conns, inbuf, req, sent, cop, carg, local, csize, cwant, cn,
                   cfpos, cout>>

\* read_from_socket(sock, content_len) of lines 85, 102 and 135 begins;
\* a header without content-length gives `len(data) < None`: TypeError
ClientWantsMessage ==
    /\ IF "content-length" \in DOMAIN chdr.d
       THEN /\ cwant' = chdr.d["content-length"]
            /\ cdata' = <<>>
            /\ ClientGoes("read_message")
       ELSE /\ ClientEnds("raised", "TypeError")
            /\ UNCHANGED <<cwant, cdata>>
    /\ UNCHANGED <<carg, local, cn, cfpos>>

\* handle_get lines 108-117: filename is rebound to the name the server
\* sent; an existing local file ends the handler, else it is created
ClientGetOpen ==
    IF "filename" \notin DOMAIN chdr.d
    THEN /\ ClientEnds("raised", "TypeError")
         /\ UNCHANGED <<carg, local, cdata, cwant, cn, cfpos>>
    ELSE LET f == chdr.d["filename"]
         IN /\ carg' = f
            /\ IF f \in DOMAIN local
               THEN /\ ClientEnds("returned", "none")
                    /\ UNCHANGED <<local, cdata, cwant, cn, cfpos>>
               ELSE /\ local' = (f :> <<>>) @@ local
                    /\ cn' = 0
                    /\ IF "content-length" \in DOMAIN chdr.d
                       THEN cwant' = chdr.d["content-length"] /\ ClientGoes("get_loop")
                       ELSE cwant' = cwant /\ ClientEnds("raised", "TypeError")
                    /\ UNCHANGED <<cdata, cfpos>>

\* what each handler does with the header it read: handle_list 84-85,
\* handle_get 97-117, handle_put 134-141
ClientDecide ==
    /\ cpc = "decide"
    /\ IF chdr.kind # "dict"
       THEN /\ ClientEnds("raised", "AttributeError")
            /\ UNCHANGED <<carg, local, cdata, cwant, cn, cfpos>>
       ELSE IF cop = "list" \/ ~("status" \in DOMAIN chdr.d /\ chdr.d["status"] = 0)
       THEN ClientWantsMessage
       ELSE IF cop = "get"
       THEN ClientGetOpen
       ELSE /\ cn' = Len(local[carg])
            /\ cfpos' = 0
            /\ ClientGoes("put_loop")
            /\ UNCHANGED <<carg, local, cdata, cwant>>
    /\ UNCHANGED <<sbase, pc, conns, inbuf, req, sent, cop, crd, csize, chdr, cout>>

\* data.decode(received_header.get('encoding')) and print: lines 86, 102-105, 135-138
ClientPrints ==
    IF "encoding" \in DOMAIN chdr.d
    THEN ClientEnds("returned", "none")
    ELSE ClientEnds("raised", "TypeError")

\* client read_from_socket lines 60-65 for a list payload or an error
\* message: one pass of the loop, or its end
ClientReadMessage ==
    /\ cpc = "read_message"
    /\ IF Len(cdata) >= cwant
       THEN ClientPrints /\ UNCHANGED <<crd, cdata>>
       ELSE \/ /\ ClientRecvFails
               /\ ClientEnds("raised", "ConnectionResetError")
               /\ UNCHANGED <<crd, cdata>>
            \/ \E packet \in client_recv(cwant - Len(cdata)) :
                  IF packet = <<>>
                  THEN ClientPrints /\ UNCHANGED <<crd, cdata>>
                  ELSE /\ cdata' = cdata \o packet
                       /\ crd' = crd + Len(packet)
                       /\ ClientGoes("read_message")
    /\ UNCHANGED <<sbase, pc, conns, inbuf, req, sent, cop, carg, local, csize, chdr, cwant,
                   cn, cfpos, cout>>

\* handle_get lines 118-122: one pass of the loop, or its end
ClientGetRecv ==
    /\ cpc = "get_loop"
    /\ IF cn >= cwant
       THEN ClientEnds("returned", "none") /\ UNCHANGED <<crd, local, cn>>
       ELSE \/ /\ ClientRecvFails
               /\ ClientEnds("raised", "ConnectionResetError")
               /\ UNCHANGED <<crd, local, cn>>
            \/ \E packet \in client_recv(BUFFER_SIZE) :
                  IF packet = <<>>
                  THEN ClientEnds("returned", "none") /\ UNCHANGED <<crd, local, cn>>
                  ELSE /\ local' = [local EXCEPT ![carg] = @ \o packet]
                       /\ cn' = cn + Len(packet)
                       /\ crd' = crd + Len(packet)
                       /\ ClientGoes("get_loop")
    /\ UNCHANGED <<sbase, pc, conns, inbuf, req, sent, cop, carg, csize, cdata, chdr, cwant,
                   cfpos, cout>>

\* f.read(4096) at the current position of the local file
client_file_read == SubSeq(local[carg], cfpos + 1, Min(cfpos + PUT_CHUNK, Len(local[carg])))

\* handle_put lines 142-147: one pass of the loop, or its end.  sock.send
\* takes the first k >= 1 bytes of data and returns k; the return value is
\* dropped and file_len goes down by len(data).  Once the server is gone
\* send raises.
ClientPutSend ==
    /\ cpc = "put_loop"
    /\ IF cn <= 0 \/ client_file_read = <<>>
       THEN ClientEnds("returned", "none") /\ UNCHANGED <<inbuf, cn, cfpos, cout>>
       ELSE \/ \E k \in 1..Len(client_file_read) :
                  /\ cout' = cout \o Take(client_file_read, k)
                  /\ inbuf' = inbuf \o Take(client_file_read, k)
                  /\ cn' = cn - Len(client_file_read)
                  /\ cfpos' = cfpos + Len(client_file_read)
                  /\ ClientGoes("put_loop")
            \/ /\ ServerClosed
               /\ \E e \in {"BrokenPipeError", "ConnectionResetError"} : ClientEnds("raised", e)
               /\ UNCHANGED <<inbuf, cn, cfpos, cout>>
    /\ UNCHANGED <<sbase, pc, conns, req, sent, cop, carg, local, crd, csize, cdata, chdr, cwant>>

\* Server.run line 213 for the one connection of a session: leaving
\* `with conn:` closes the socket; the bytes already sent stay readable
ServerClose ==
    /\ pc = "close"
    /\ pc' = "accept"
    /\ UNCHANGED <<cvars, sbase, conns, peer, inbuf, req, sent>>

\* the server variables of a run in which no connection has been made
ServerFresh ==
    /\ names = CuratedNames
    /\ fs_at_accept = fs
    /\ peer = "none"
    /\ inbuf = <<>>
    /\ req = [stream |-> <<>>, op |-> "none"]
    /\ sent = <<>>
    /\ size = 0
    /\ data = <<>>
    /\ hdr = NoneVal
    /\ handler = "none"
    /\ filename = <<>>
    /\ content_len = 0
    /\ n = 0
    /\ file_len = 0
    /\ fpos = 0
    /\ exc = "none"
    /\ log = <<>>
    /\ touched = {}
    /\ uploaded = NoUpload

\* the local directories a client starts in
LocalDirs ==
    {NoLocalFiles, (<<"a">> :> Payload(1))}
    \cup {(<<"b">> :> Payload(k)) : k \in 0..(MaxPayload + 1)}

\* One session of this client with this server: the server waits in
\* accept(), the client has parsed its arguments (main lines 154-176).
\* The file names of the sessions hold no separator, so one platform
\* stands for both.
InitSession ==
    /\ platform = "posix"
    /\ fs \in {EmptyDir, SomeDir}
    /\ ServerFresh
    /\ pc = "accept"
    /\ conns = MaxConns - 1
    /\ cpc = "start"
    /\ cop \in {"list", "get", "put"}
    /\ carg \in {<<>>, <<"a">>, <<"e">>, <<"b">>}
    /\ local \in LocalDirs
    /\ ClientFresh

\* put_handler is left out: no request of this client reaches it
\* (handle_put sends the method 'put'), nor does a client reset or send a
\* header that is no field table.
NextSession ==
    \/ ClientConnect
    \/ RecvPrefix
    \/ ReadBodyRecv
    \/ ReadBodyDone
    \/ MalformedRequest
    \/ UnknownMethod
    \/ ListHandler
    \/ GetStart
    \/ GetChunk
    \/ GetDone
    \/ ServerClose
    \/ ClientRecvPrefix
    \/ ClientReadBody
    \/ ClientDecide
    \/ ClientReadMessage
    \/ ClientGetRecv

\* every step of either side is taken once it can be: each process runs,
\* and the network delivers what was sent
SpecSession == InitSession /\ [][NextSession]_vars /\ WF_vars(NextSession)

\* ------------------------------------------- the client and any server
\* what a server may answer a PUT request with: the acknowledgment, an
\* ERROR frame with a message, or a fragment of a frame
AnyReplies ==
    {generate_header(StatusOK, 0, "utf-8", <<>>), error_frame(<<"n", "o">>), <<Oct(0)>>}

\* main lines 178-186 against a server that is connected already
ClientConnectAny ==
    /\ cpc = "start"
    /\ pc = "any"
    /\ ClientSends
    /\ UNCHANGED <<sbase, pc, conns, sent>>

\* the server takes the bytes that have arrived off its socket
AnyServerReads ==
    /\ pc = "any"
    /\ inbuf # <<>>
    /\ inbuf' = <<>>
    /\ UNCHANGED <<cvars, sbase, pc, conns, peer, req, sent>>

\* the server answers, once
AnyServerReplies ==
    /\ pc = "any"
    /\ cpc # "start"
    /\ sent = <<>>
    /\ sent' \in AnyReplies
    /\ UNCHANGED <<cvars, sbase, pc, conns, peer, inbuf, req>>

\* the server closes the connection
AnyServerCloses ==
    /\ pc = "any"
    /\ cpc # "start"
    /\ pc' = "gone"
    /\ UNCHANGED <<cvars, sbase, conns, peer, inbuf, req, sent>>

\* handle_put of this client, facing a server that may acknowledge
InitClient ==
    /\ platform = "posix"
    /\ fs = EmptyDir
    /\ ServerFresh
    /\ pc = "any"
    /\ conns = 0
    /\ cpc = "start"
    /\ cop = "put"
    /\ carg = <<"b">>
    /\ local \in LocalDirs
    /\ ClientFresh

NextClient ==
    \/ ClientConnectAny
    \/ AnyServerReads
    \/ AnyServerReplies
    \/ AnyServerCloses
    \/ ClientRecvPrefix
    \/ ClientReadBody
    \/ ClientDecide
    \/ ClientReadMessage
    \/ ClientPutSend

SpecClient == InitClient /\ [][NextClient]_vars

\* =============================================================== claims
\* What the claims read off a connection.

\* the decoded request carries a filename / declares content-length 0
HasName == hdr.kind = "dict" /\ "filename" \in DOMAIN hdr.d

RawName == hdr.d["filename"]

HasLength == hdr.kind = "dict" /\ "content-length" \in DOMAIN hdr.d

DeclaredZero == HasLength /\ hdr.d["content-length"] = 0

\* the server's output is one response frame with these fields and payload
IsResponse(s, status, encoding, text) ==
    /\ Len(s) >= 2
    /\ json_loads(WholeBody(s)).ok
    /\ LET h == json_loads(WholeBody(s)).val
       IN /\ h.kind = "dict"
          /\ DOMAIN h.d = {"status", "content-length", "encoding"}
          /\ h.d["status"] = status
          /\ h.d["content-length"] = Len(text)
          /\ h.d["encoding"] = encoding
    /\ AfterFrame(s) = [i \in 1..Len(text) |-> Ch(text[i])]

Undecodable(s) == Len(s) < 2 \/ ~json_loads(WholeBody(s)).ok

\* C1: no per-request error escapes the accept loop: whatever a peer sends
\* or does, Server.run never ends by an exception.
C1_NoErrorEscapes == pc # "crashed"

\* C2: whenever the request frame cannot be decoded (no 2-byte prefix, or a
\* body that does not parse), the connection ends with the handler-free
\* error branch having sent exactly one ERROR frame carrying the generic
\* message.
C2_UndecodableGetsError ==
    (pc \in {"close", "crashed"} /\ peer = "open" /\ Undecodable(req.stream))
        => /\ pc = "close"
           /\ handler = "malformed"
           /\ IsResponse(sent, 1, "utf-8", NoHeaderMsg)

\* C3: however the bytes of a stream that carries a frame are split into
\* deliveries, read_from_socket returns the bytes, and read_header the
\* header, that a delivery in one piece gives.
C3_ChunkingInvisible ==
    /\ (pc = "read_body" /\ Len(data) >= size) => data = WholeBody(req.stream)
    /\ (pc = "dispatch" /\ ~Undecodable(req.stream))
          => hdr = json_loads(WholeBody(req.stream)).val

\* a bare file name of the working directory: no separator, not '.' or
\* '..', no leading or trailing '.' or '_'
SafePath(p) ==
    /\ \A i \in 1..Len(p) : p[i] \notin ({os_path_sep, os_path_altsep} \ {""})
    /\ p # <<".">> /\ p # <<".", ".">>
    /\ p # <<>> => p[1] \notin {".", "_"} /\ p[Len(p)] \notin {".", "_"}

\* C4: every path GET and PUT test, open or create is a sanitized name, and
\* a sanitized name is a bare file name whatever string the peer sent, so
\* every entry of the working directory is one.
C4_PathsAreBareNames ==
    /\ \A p \in touched \cup DOMAIN fs : SafePath(p)
    /\ touched # {} => handler \in {"get", "put"} /\ touched = {filename}
    /\ DOMAIN fs_at_accept \subseteq DOMAIN fs
    /\ DOMAIN fs \subseteq DOMAIN fs_at_accept \cup touched

\* a PUT whose raw name holds a separator created a file, under another name
C4_Witness ==
    /\ handler = "put"
    /\ pc = "put_loop"
    /\ HasName
    /\ \E i \in 1..Len(RawName) : RawName[i] = os_path_sep
    /\ filename # <<>>
    /\ filename \in DOMAIN fs /\ filename \notin DOMAIN fs_at_accept

SanitizesToEmpty == handler \in {"get", "put"} /\ HasName /\ secure_filename(RawName) = <<>>

\* C5: a name that sanitizes to '' is "file not found" for both handlers:
\* GET answers ERROR 'File not found ""', PUT creates nothing, and either
\* way the handler returns.
C5_EmptyNameIsNotFound ==
    (SanitizesToEmpty /\ peer = "open" /\ pc \in {"close", "crashed"})
        => /\ pc = "close"
           /\ fs = fs_at_accept
           /\ handler = "get" =>
                 IsResponse(sent, 1, "utf-8", <<"F", "i", "l", "e", " ", "n", "o", "t", " ", "f", "o", "u", "n", "d", " ", "\"", "\"">>)

\* C6: when put_handler has returned, the file it created holds no more
\* than the declared content-length bytes.
C6_NoMoreThanDeclared ==
    (handler = "put" /\ pc = "close" /\ filename \in DOMAIN fs /\ filename \notin DOMAIN fs_at_accept)
        => Len(fs[filename].data) <= content_len

\* C7: a PUT without content-length (under a name that does not sanitize to
\* '') has no payload: no file is created and the handler returns.
C7_NoLengthNoFile ==
    (handler = "put" /\ HasName /\ secure_filename(RawName) # <<>> /\ ~HasLength /\ peer = "open")
        => pc = "close" /\ fs = fs_at_accept

PutOfNothingNew == handler = "put" /\ HasName /\ DeclaredZero /\ secure_filename(RawName) \notin DOMAIN fs_at_accept

\* C8: a PUT declaring content-length 0 under a name that does not exist
\* leaves the working directory as it was, reads nothing after the request
\* header, and sends the OK acknowledgment (status 0, content-length 0) and
\* nothing else.
C8_ZeroLengthPut ==
    PutOfNothingNew
        => /\ fs = fs_at_accept
           /\ inbuf = AfterFrame(req.stream)
           /\ sent = <<>> \/ IsResponse(sent, 0, "utf-8", <<>>)
           /\ pc = "close" => IsResponse(sent, 0, "utf-8", <<>>)
           /\ peer = "open" => pc = "close"

\* such a PUT, with payload bytes following it, has been acknowledged
C8_Witness ==
    /\ PutOfNothingNew
    /\ pc = "close"
    /\ peer = "open"
    /\ inbuf # <<>>
    /\ sent # <<>>

PutOfExisting == handler = "put" /\ HasName /\ secure_filename(RawName) \in DOMAIN fs_at_accept

\* C9: a PUT under a sanitized name that names an entry of the working
\* directory is answered with ERROR 'File Exists: "<name>"' and nothing
\* else, reads nothing after the request header, and changes no entry.
C9_ExistingNameRefused ==
    PutOfExisting
        => /\ pc = "close"
           /\ fs = fs_at_accept
           /\ inbuf = AfterFrame(req.stream)
           /\ \/ sent = <<>>
              \/ IsResponse(sent, 1, "utf-8",
                            <<"F", "i", "l", "e", " ", "E", "x", "i", "s", "t", "s", ":", " ", "\"">>
                                \o secure_filename(RawName) \o <<"\"">>)
           /\ peer = "open" => sent # <<>>

\* a PUT onto a directory, with payload bytes following it, has been refused
C9_Witness ==
    /\ PutOfExisting
    /\ peer = "open"
    /\ fs[filename].kind = "dir"
    /\ sent # <<>>
    /\ inbuf # <<>>

\* C10: the request of every client operation reaches the handler of that
\* operation.
C10_ClientMethodsRouted ==
    (req.op \in {"list", "get", "put"} /\ handler \notin {"none", "malformed"})
        => handler = req.op

\* the server's output is one OK response that carries these bytes
GotBytes(s, bytes) ==
    /\ Len(s) >= 2
    /\ json_loads(WholeBody(s)).ok
    /\ LET h == json_loads(WholeBody(s)).val
       IN /\ h.kind = "dict"
          /\ {"status", "content-length"} \subseteq DOMAIN h.d
          /\ h.d["status"] = 0
          /\ h.d["content-length"] = Len(bytes)
    /\ AfterFrame(s) = bytes

\* a GET, by a peer that stays connected, of the raw name of a completed upload
GetOfUploaded ==
    /\ uploaded # NoUpload
    /\ handler = "get"
    /\ HasName
    /\ RawName = uploaded.name
    /\ peer = "open"

\* C11: after a completed PUT of n >= 1 bytes under a name that did not
\* exist, a GET of the same name on a later connection is answered with
\* status OK, content-length n and exactly the n bytes that were uploaded.
C11_PutThenGet ==
    /\ (GetOfUploaded /\ pc \in {"close", "crashed"})
          => pc = "close" /\ GotBytes(sent, uploaded.payload)
    /\ (GetOfUploaded /\ pc = "get_loop")
          => \E k \in 0..Len(uploaded.payload) : GotBytes(sent \o Drop(uploaded.payload, k), uploaded.payload)

\* a two-byte upload under a name with a separator has been fetched back
C11_Witness ==
    /\ GetOfUploaded
    /\ pc = "close"
    /\ Len(uploaded.payload) = 2
    /\ uploaded.name # filename
    /\ sent # <<>>

\* the server holds a connection socket from accept() to the end of `with conn:`
ConnOpen == peer # "none"

\* C12: connections are handled strictly one after another: a connection is
\* accepted only while no handler runs and no connection socket is open, and
\* once a handler has returned the next step closes the connection, before
\* any accept.
C12_StrictlySequential ==
    /\ [](pc = "accept" => ~ConnOpen /\ handler = "none")
    /\ [][conns' # conns => /\ pc = "accept" /\ ~ConnOpen /\ handler = "none"
                             /\ conns' = conns + 1 /\ ConnOpen']_vars
    /\ [][pc = "close" => ~ConnOpen' /\ conns' = conns /\ pc' \in {"accept", "stopped"}]_vars

\* a second connection has been accepted after the first one was handled
C12_Witness ==
    /\ conns = 2
    /\ pc = "read_prefix"
    /\ ConnOpen
    /\ fs # fs_at_accept \/ uploaded # NoUpload

\* bytes of the peer's stream the server has taken off the socket
Consumed == Len(req.stream) - Len(inbuf)

\* s is one complete response header followed by no more payload bytes than
\* the header declares, and by nothing else
OneResponse(s) ==
    /\ Len(s) >= 2
    /\ Len(s) >= 2 + struct_unpack(Take(s, 2))
    /\ json_loads(WholeBody(s)).ok
    /\ LET h == json_loads(WholeBody(s)).val
       IN /\ h.kind = "dict"
          /\ {"status", "content-length", "encoding"} \subseteq DOMAIN h.d
          /\ Len(AfterFrame(s)) <= h.d["content-length"]
    /\ \A i \in 1..Len(AfterFrame(s)) : AfterFrame(s)[i][1] = "c"

\* C13: on a connection the server enters read_header once, right after
\* accept, keeps the header it decoded, takes no byte off the socket beyond
\* that frame except the payload a PUT writes to its file, and what it sends
\* is nothing or one response header followed only by that header's payload.
C13_OneRequestOneResponse ==
    /\ [](ConnOpen => sent = <<>> \/ OneResponse(sent))
    /\ [](ConnOpen => Consumed <= 2 + size + n)
    /\ [](ConnOpen /\ handler # "put" => n = 0)
    /\ [][pc' = "read_prefix" => pc \in {"accept", "read_prefix"}]_vars
    /\ [][pc' = "read_body" => pc \in {"read_prefix", "read_body"}]_vars
    /\ [][pc = "read_prefix" => pc' # "read_prefix" \/ inbuf' = inbuf]_vars
    /\ [][(pc \in {"dispatch", "get_loop", "put_loop", "close"} /\ pc' \notin {"accept", "stopped"})
              => (hdr' = hdr)]_vars

\* a second connection got a response header and a payload of several chunks
C13_Witness ==
    /\ conns = 2
    /\ handler = "get"
    /\ pc = "close"
    /\ OneResponse(sent)
    /\ Len(AfterFrame(sent)) = 3

\* the server decoded a field table whose method is none of LIST, GET, PUT
DecodedOtherMethod ==
    /\ hdr.kind = "dict"
    /\ "method" \notin DOMAIN hdr.d \/ hdr.d["method"] \notin {"LIST", "GET", "PUT"}

\* C14: a decoded request whose method is none of LIST, GET, PUT (also a
\* missing method or another letter case) ends with the unknown-method log
\* entry, no byte sent and the filesystem neither tested nor changed.
C14_UnknownMethodSilent ==
    (pc \in {"close", "crashed"} /\ DecodedOtherMethod)
        => /\ pc = "close"
           /\ log = <<"Method Unknown">>
           /\ sent = <<>>
           /\ touched = {}
           /\ fs = fs_at_accept

\* the same, for the field tables that have at least one field
C14_NonEmptyTables ==
    (pc \in {"close", "crashed"} /\ DecodedOtherMethod /\ DOMAIN hdr.d # {})
        => /\ pc = "close"
           /\ log = <<"Method Unknown">>
           /\ sent = <<>>
           /\ touched = {}
           /\ fs = fs_at_accept

\* the name get_handler derives from the decoded request
RequestedName == secure_filename(IF HasName THEN RawName ELSE NoneStr)

\* a GET, by a peer that stays connected, of a name that was a regular file
\* when the connection began
GetOfFile ==
    /\ handler = "get"
    /\ RequestedName \in DOMAIN fs_at_accept
    /\ fs_at_accept[RequestedName].kind = "file"
    /\ peer = "open"

\* s is a GET response header for the file fname of the given size,
\* followed by these payload bytes
FileResponse(s, fname, fsize, bytes) ==
    /\ Len(s) >= 2
    /\ json_loads(WholeBody(s)).ok
    /\ LET h == json_loads(WholeBody(s)).val
       IN /\ h.kind = "dict"
          /\ DOMAIN h.d = {"status", "content-length", "encoding", "filename"}
          /\ h.d["status"] = 0
          /\ h.d["content-length"] = fsize
          /\ h.d["encoding"] = "binary"
          /\ h.d["filename"] = fname
    /\ AfterFrame(s) = bytes

\* C15: a GET of an existing regular file is answered with status OK,
\* encoding binary, the sanitized name and the file size, followed by the
\* file's bytes in order and nothing else: all of them once the handler has
\* returned, a chunked prefix of them while it sends.
C15_GetSendsTheFile ==
    GetOfFile =>
        LET contents == fs_at_accept[RequestedName].data
        IN /\ pc \in {"get_loop", "close", "crashed"}
           /\ pc # "crashed"
           /\ pc = "close" => FileResponse(sent, RequestedName, Len(contents), contents)
           /\ pc = "get_loop" =>
                 /\ fpos = Min(fpos, Len(contents))
                 /\ fpos % BUFFER_SIZE = 0 \/ fpos = Len(contents)
                 /\ FileResponse(sent, RequestedName, Len(contents), Take(contents, fpos))

\* a file of more than one chunk has been sent whole
C15_Witness ==
    /\ GetOfFile
    /\ pc = "close"
    /\ Len(fs_at_accept[RequestedName].data) > BUFFER_SIZE
    /\ fpos = Len(fs_at_accept[RequestedName].data)

\* an empty file has been sent: a header and no payload byte
C15_WitnessEmpty ==
    /\ GetOfFile
    /\ pc = "close"
    /\ fs_at_accept[RequestedName].data = <<>>
    /\ sent # <<>>

\* the lines of a payload: the runs of bytes between newline bytes
RECURSIVE SplitLines(_, _)
SplitLines(bytes, cur) ==
    IF bytes = <<>> THEN <<cur>>
    ELSE IF Head(bytes) = Ch("\n") THEN <<cur>> \o SplitLines(Tail(bytes), <<>>)
    ELSE SplitLines(Tail(bytes), Append(cur, Head(bytes)[2]))

\* the names a LIST payload carries ('' carries none)
ListedNames(bytes) == IF bytes = <<>> THEN <<>> ELSE SplitLines(bytes, <<>>)

\* the server decoded a LIST request and the peer is still connected
ListRequested == hdr.kind = "dict" /\ IsMethod(hdr, "LIST") /\ peer = "open"

\* C16: a LIST request, with or without a filename field, is answered with
\* status OK, encoding utf-8 and content-length equal to the payload length,
\* and the payload is the newline-joined names, each once, of exactly the
\* regular files of the working directory; an empty directory gives an empty
\* payload.
C16_ListAnswer ==
    (ListRequested /\ pc \in {"close", "crashed"})
        => /\ pc = "close"
           /\ handler = "list"
           /\ fs = fs_at_accept
           /\ Len(sent) >= 2
           /\ json_loads(WholeBody(sent)).ok
           /\ LET h == json_loads(WholeBody(sent)).val
                  listed == ListedNames(AfterFrame(sent))
              IN /\ h.kind = "dict"
                 /\ DOMAIN h.d = {"status", "content-length", "encoding"}
                 /\ h.d["status"] = 0
                 /\ h.d["encoding"] = "utf-8"
                 /\ h.d["content-length"] = Len(AfterFrame(sent))
                 /\ {listed[i] : i \in DOMAIN listed}
                        = {p \in DOMAIN fs_at_accept : fs_at_accept[p].kind = "file"}
                 /\ \A i, j \in DOMAIN listed : i # j => listed[i] # listed[j]
                 /\ DOMAIN fs_at_accept = {} => AfterFrame(sent) = <<>>

\* a LIST request with a filename field has been answered from a directory
\* that holds regular files and a subdirectory
C16_Witness ==
    /\ ListRequested
    /\ pc = "close"
    /\ "filename" \in DOMAIN hdr.d
    /\ \E p \in DOMAIN fs : fs[p].kind = "dir"
    /\ Len(ListedNames(AfterFrame(sent))) >= 2

\* a LIST request has been answered from an empty directory
C16_WitnessEmpty ==
    /\ ListRequested
    /\ pc = "close"
    /\ DOMAIN fs = {}
    /\ sent # <<>>

\* a GET of a name that was a regular file when the connection began, whose
\* peer has gone (closed or reset the connection) before the handler ended
GetPeerGone ==
    /\ handler = "get"
    /\ RequestedName \in DOMAIN fs_at_accept
    /\ fs_at_accept[RequestedName].kind = "file"
    /\ peer \in {"closed", "reset"}

\* C17: when the peer disconnects while a GET response is being sent, be it
\* at the header or at a payload chunk and whichever error the write
\* reports, the handler logs the aborted transfer and returns: the server
\* does not end by the exception.
C17_SendFailureHandled ==
    (GetPeerGone /\ pc \in {"close", "crashed"})
        => /\ pc = "close"
           /\ log \in {<<"GET - OK">>, <<"GET - Error - Client Disconnected">>}

\* the one failure get_handler does handle: ConnectionResetError at a chunk
C17_ResetAtChunkHandled ==
    [][(pc = "get_loop" /\ pc' = "close" /\ sent' = sent /\ file_len > 0 /\ file_read # <<>>)
          => log' = Append(log, "GET - Error - Client Disconnected")]_vars

\* A PUT under a new name that was acknowledged, whose peer sent fewer
\* payload bytes than the content-length it declared and closed its end.
ShortPut ==
    /\ handler = "put"
    /\ HasName /\ HasLength
    /\ secure_filename(RawName) # <<>>
    /\ secure_filename(RawName) \notin DOMAIN fs_at_accept
    /\ Len(AfterFrame(req.stream)) < hdr.d["content-length"]
    /\ sent # <<>>
    /\ peer = "closed"

\* C18: when the peer closes after the acknowledgment and before
\* content-length bytes have arrived, the handler stops reading and returns,
\* and the new file holds exactly the bytes that arrived, in order; nothing
\* else in the directory changes.
C18_ShortUploadKept ==
    ShortPut =>
        LET arrived == AfterFrame(req.stream)
            f == secure_filename(RawName)
        IN /\ pc \in {"put_loop", "close"}
           /\ DOMAIN fs = DOMAIN fs_at_accept \cup {f}
           /\ \A p \in DOMAIN fs_at_accept : fs[p] = fs_at_accept[p]
           /\ fs[f].kind = "file"
           /\ fs[f].data = Take(arrived, n)
           /\ inbuf = Drop(arrived, n)
           /\ pc = "close" => n = Len(arrived) /\ log = <<"PUT - OK">>

\* one of two declared bytes arrived before the peer closed, and the handler
\* has returned
C18_Witness ==
    /\ ShortPut
    /\ pc = "close"
    /\ content_len = 2
    /\ n = 1
    /\ fs[filename].data = Take(AfterFrame(req.stream), 1)

\* the client has decoded a response header with status OK
ClientAcked == chdr.kind = "dict" /\ "status" \in DOMAIN chdr.d /\ chdr.d["status"] = 0

\* the bytes the client transmitted after its request header
ClientPayloadOut == Drop(cout, Len(req.stream))

\* the first half of C19: without an acknowledgment the client has
\* transmitted its request header and nothing else
C19_NoPayloadBeforeAck ==
    (cop = "put" /\ ~ClientAcked) => cout = req.stream

\* C19: in a client PUT no payload byte is transmitted before the OK
\* acknowledgment has been read, and when handle_put returns after the
\* acknowledgment the client has transmitted the whole local file, in order:
\* exactly the content-length bytes its request declared.
C19_PutSendsWholeFile ==
    /\ C19_NoPayloadBeforeAck
    /\ (cop = "put" /\ ClientAcked /\ cpc = "returned")
          => /\ ClientPayloadOut = local[carg]
             /\ "content-length" \in DOMAIN PeerRequest.val.d
                   => Len(ClientPayloadOut) = PeerRequest.val.d["content-length"]

\* the client operation has returned or exited by an exception
ClientOver == cpc \in {"returned", "raised"}

\* the server's handler has returned and run() has closed the connection
ServerOver == pc = "accept" /\ conns = MaxConns

\* C20: every session of this client with this server ends: the client
\* operation returns or exits, and the server's handler returns and the
\* connection is closed; nobody is left waiting for bytes that will not come.
C20_SessionsEnd == <>(ClientOver /\ ServerOver)

\* what does hold: neither side is left blocked; a session that does not
\* end as C20 says ends by an exception that leaves Server.run
C20_NeitherSideBlocks == <>(ClientOver /\ (ServerOver \/ pc = "crashed"))

====
